---- MODULE Spec2Model ----
(***************************************************************************)
(* A model of proxydial: a net.Dialer replacement that refuses to connect  *)
(* over networks, to ports or to IP ranges its policy does not allow.      *)
(*                                                                         *)
(* One behaviour of the model is one call of Dialer.Dial.  The call is cut *)
(* at the places where the code hands control to a collaborator            *)
(* (net.SplitHostPort, net.LookupPort, net.LookupIP, net.Dialer.Dial), so  *)
(* that the order of those calls can be observed.  Time is counted in      *)
(* whole seconds; it passes only inside connect attempts, the code between *)
(* them is instantaneous, and the time host resolution takes is part of    *)
(* the time at which the serial connector starts (Epoch).  time.Time is an *)
(* integer, the zero Time is 0 and the clock starts later.                 *)
(***************************************************************************)
EXTENDS Integers, Sequences, FiniteSets, TLC

----------------------------------------------------------------------------
(* Bounds of the model *)

\* longest list of addresses host resolution returns
MaxIPs == 3
\* largest configured Dialer.Timeout, in seconds
MaxTimeout == 5
\* latest configured Dialer.Deadline
MaxDeadline == 6
\* wall-clock time at which Dial is called
Epoch == 3
\* longest time a connect attempt takes when nothing bounds it
MaxAttempt == 1

----------------------------------------------------------------------------
(* IP addresses: net.IP is a byte slice of length 4 or 16 *)

V4(a, b, c, e) == <<a, b, c, e>>

\* the 16-byte form of an IPv6 address given as its eight 16-bit groups
V6(g) == [k \in 1..16 |->
            IF k % 2 = 1 THEN g[(k + 1) \div 2] \div 256
                         ELSE g[k \div 2] % 256]

\* net.IP.To4: the 4-byte form of an IPv4 or IPv4-mapped address, else <<>>
To4(ip) ==
    IF Len(ip) = 4 THEN ip
    ELSE IF /\ Len(ip) = 16
            /\ \A k \in 1..10 : ip[k] = 0
            /\ ip[11] = 255 /\ ip[12] = 255
         THEN SubSeq(ip, 13, 16)
         ELSE <<>>

IsV4(ip) == To4(ip) # <<>>

Pow2(n) == 2 ^ n

\* byte b with all but its leading `bits` bits cleared (b & mask)
MaskByte(b, bits) ==
    IF bits >= 8 THEN b
    ELSE IF bits <= 0 THEN 0
    ELSE b - (b % Pow2(8 - bits))

\* net.IPNet.Contains; a range is [ip |-> network number, bits |-> prefix length]
Contains(netrange, ip) ==
    LET x == IF IsV4(ip) THEN To4(ip) ELSE ip
    IN  /\ Len(x) = Len(netrange.ip)
        /\ \A k \in 1..Len(x) :
              MaskByte(netrange.ip[k], netrange.bits - 8 * (k - 1))
                = MaskByte(x[k], netrange.bits - 8 * (k - 1))

IsPrivate(ip) ==
    IF IsV4(ip)
    THEN LET q == To4(ip)
         IN  \/ q[1] = 10
             \/ (q[1] = 172 /\ MaskByte(q[2], 4) = 16)
             \/ (q[1] = 192 /\ q[2] = 168)
    ELSE Len(ip) = 16 /\ MaskByte(ip[1], 7) = 252

IsLoopback(ip) ==
    IF IsV4(ip) THEN To4(ip)[1] = 127
    ELSE ip = V6(<<0, 0, 0, 0, 0, 0, 0, 1>>)

IsLinkLocalUnicast(ip) ==
    IF IsV4(ip) THEN To4(ip)[1] = 169 /\ To4(ip)[2] = 254
    ELSE Len(ip) = 16 /\ ip[1] = 254 /\ MaskByte(ip[2], 2) = 128

IsLinkLocalMulticast(ip) ==
    IF IsV4(ip) THEN To4(ip)[1] = 224 /\ To4(ip)[2] = 0 /\ To4(ip)[3] = 0
    ELSE Len(ip) = 16 /\ ip[1] = 255 /\ ip[2] % 16 = 2

IsMulticast(ip) ==
    IF IsV4(ip) THEN MaskByte(To4(ip)[1], 4) = 224
    ELSE Len(ip) = 16 /\ ip[1] = 255

IsInterfaceLocalMulticast(ip) ==
    Len(ip) = 16 /\ ip[1] = 255 /\ ip[2] % 16 = 1

IsUnspecified(ip) ==
    \/ To4(ip) = V4(0, 0, 0, 0)
    \/ ip = V6(<<0, 0, 0, 0, 0, 0, 0, 0>>)

----------------------------------------------------------------------------
(* The policy: type Dialer, and DefaultDialer *)

Range4(a, b, c, e, bits) == [ip |-> V4(a, b, c, e), bits |-> bits]
Range6(g, bits) == [ip |-> V6(g), bits |-> bits]

\* cidrRange("a.b.c.d/n") and cidrRange("x::/n") of DefaultDialer.BlockedRanges
DefaultBlockedRanges ==
    << Range4(0, 0, 0, 0, 8),        Range4(10, 0, 0, 0, 8),
       Range4(100, 64, 0, 0, 10),    Range4(127, 0, 0, 0, 8),
       Range4(169, 254, 0, 0, 16),   Range4(172, 16, 0, 0, 12),
       Range4(192, 0, 0, 0, 24),     Range4(192, 0, 2, 0, 24),
       Range4(192, 88, 99, 0, 24),   Range4(192, 168, 0, 0, 16),
       Range4(198, 18, 0, 0, 15),    Range4(198, 51, 100, 0, 24),
       Range4(203, 0, 113, 0, 24),   Range4(224, 0, 0, 0, 4),
       Range4(240, 0, 0, 0, 4),      Range4(255, 255, 255, 255, 32),
       Range6(<<0, 0, 0, 0, 0, 0, 0, 0>>, 128),
       Range6(<<0, 0, 0, 0, 0, 0, 0, 1>>, 128),
       Range6(<<256, 0, 0, 0, 0, 0, 0, 0>>, 64),
       Range6(<<100, 65435, 0, 0, 0, 0, 0, 0>>, 96),
       Range6(<<8193, 0, 0, 0, 0, 0, 0, 0>>, 32),
       Range6(<<8193, 16, 0, 0, 0, 0, 0, 0>>, 28),
       Range6(<<8193, 32, 0, 0, 0, 0, 0, 0>>, 28),
       Range6(<<8193, 3512, 0, 0, 0, 0, 0, 0>>, 32),
       Range6(<<8194, 0, 0, 0, 0, 0, 0, 0>>, 16),
       Range6(<<64512, 0, 0, 0, 0, 0, 0, 0>>, 7),
       Range6(<<65152, 0, 0, 0, 0, 0, 0, 0>>, 10),
       Range6(<<65280, 0, 0, 0, 0, 0, 0, 0>>, 8) >>

\* var DefaultDialer: no Timeout, no Deadline, no KeepAlive, no LocalAddr
DefaultDialer ==
    [ AllowedNets      |-> <<"tcp">>,
      AllowedPorts     |-> <<80, 443, 8080, 8443>>,
      BlockedRanges    |-> DefaultBlockedRanges,
      BlockPrivate     |-> TRUE,
      BlockLinkLocal   |-> TRUE,
      BlockMulticast   |-> TRUE,
      BlockUnspecified |-> TRUE,
      Timeout          |-> 0,
      Deadline         |-> 0,
      KeepAlive        |-> 0,
      LocalAddr        |-> "nil" ]

\* DefaultDialer.BlockedRanges of dialer.go: its fifth range is 169.24.0.0/16
LegacyBlockedRanges ==
    [k \in 1..Len(DefaultBlockedRanges) |->
        IF k = 5 THEN Range4(169, 24, 0, 0, 16) ELSE DefaultBlockedRanges[k]]

\* var DefaultDialer of dialer.go: its Dialer has no Block* fields and its
\* allowedIP looks at BlockedRanges only
LegacyDefaultDialer ==
    [ DefaultDialer EXCEPT
        !.BlockedRanges    = LegacyBlockedRanges,
        !.BlockPrivate     = FALSE,
        !.BlockLinkLocal   = FALSE,
        !.BlockMulticast   = FALSE,
        !.BlockUnspecified = FALSE ]

\* a Dialer a caller builds: mail over tcp or udp, only loopback blocked
MailDialer ==
    [ DefaultDialer EXCEPT
        !.AllowedNets      = <<"tcp", "udp">>,
        !.AllowedPorts     = <<25>>,
        !.BlockedRanges    = << Range4(127, 0, 0, 0, 8) >>,
        !.BlockPrivate     = FALSE,
        !.BlockLinkLocal   = FALSE,
        !.BlockMulticast   = FALSE,
        !.BlockUnspecified = FALSE,
        !.KeepAlive        = 30 ]

\* the policy's time budget set by the caller
WithBudget(dl, timeout, deadline) ==
    [dl EXCEPT !.Timeout = timeout, !.Deadline = deadline]

----------------------------------------------------------------------------
(* The policy's predicates *)

\* int16(n): the conversion Dial applies to the port before allowedPort
ToInt16(n) ==
    LET m == n % 65536
    IN  IF m >= 32768 THEN m - 65536 ELSE m

\* allowedNet with the check left out
allowedNet_any(dl, network) == TRUE

allowedNet(dl, network) ==
    \E k \in 1..Len(dl.AllowedNets) : dl.AllowedNets[k] = network

\* allowedPort with the check left out
allowedPort_any(dl, port) == TRUE

allowedPort(dl, port) ==
    \E k \in 1..Len(dl.AllowedPorts) : dl.AllowedPorts[k] = port

\* allowedIP whose BlockPrivate leaves loopback addresses alone
allowedIP_privateOnly(dl, ip) ==
    IF dl.BlockPrivate /\ IsPrivate(ip) THEN FALSE
    ELSE IF dl.BlockLinkLocal
            /\ (IsLinkLocalUnicast(ip) \/ IsLinkLocalMulticast(ip)) THEN FALSE
    ELSE IF dl.BlockMulticast
            /\ (IsMulticast(ip) \/ IsInterfaceLocalMulticast(ip)) THEN FALSE
    ELSE IF dl.BlockUnspecified /\ IsUnspecified(ip) THEN FALSE
    ELSE \A k \in 1..Len(dl.BlockedRanges) : ~Contains(dl.BlockedRanges[k], ip)

\* Dialer.allowedIP: the four classes, as far as their flags are set, then
\* the blocked ranges
allowedIP(dl, ip) ==
    IF dl.BlockPrivate /\ (IsPrivate(ip) \/ IsLoopback(ip)) THEN FALSE
    ELSE IF dl.BlockLinkLocal
            /\ (IsLinkLocalUnicast(ip) \/ IsLinkLocalMulticast(ip)) THEN FALSE
    ELSE IF dl.BlockMulticast
            /\ (IsMulticast(ip) \/ IsInterfaceLocalMulticast(ip)) THEN FALSE
    ELSE IF dl.BlockUnspecified /\ IsUnspecified(ip) THEN FALSE
    ELSE \A k \in 1..Len(dl.BlockedRanges) : ~Contains(dl.BlockedRanges[k], ip)

----------------------------------------------------------------------------
(* Port texts: strings are sequences of one-character strings *)

Digits == {"0", "1", "2", "3", "4", "5", "6", "7", "8", "9"}

DigitVal(c) ==
    CASE c = "0" -> 0 [] c = "1" -> 1 [] c = "2" -> 2 [] c = "3" -> 3
      [] c = "4" -> 4 [] c = "5" -> 5 [] c = "6" -> 6 [] c = "7" -> 7
      [] c = "8" -> 8 [] c = "9" -> 9

\* const big = 0xFFFFFF
big == 16777215

\* the loop of dtoi from offset i with n accumulated: [n, i, ok]
RECURSIVE dtoiLoop(_, _, _)
dtoiLoop(s, i, n) ==
    IF i <= Len(s) /\ s[i] \in Digits
    THEN LET n2 == n * 10 + DigitVal(s[i])
         IN  IF n2 >= big THEN [n |-> 0, i |-> i, ok |-> FALSE, over |-> TRUE]
             ELSE dtoiLoop(s, i + 1, n2)
    ELSE [n |-> n, i |-> i, ok |-> TRUE, over |-> FALSE]

\* dtoi(s, i0); offsets are 1-based here, so "i = len(s)" reads i = Len(s) + 1
dtoi(s, i0) ==
    LET r == dtoiLoop(s, i0, 0)
    IN  IF r.over THEN [n |-> 0, i |-> r.i, ok |-> FALSE]
        ELSE IF r.i = i0 THEN [n |-> 0, i |-> r.i, ok |-> FALSE]
        ELSE [n |-> r.n, i |-> r.i, ok |-> TRUE]

\* NeedsLookupPort content with the digits a text begins with
NeedsLookupPort_prefix(port) ==
    LET r == dtoi(port, 1)
    IN  ~r.ok

\* whether parsePort hands the text to net.LookupPort
NeedsLookupPort(port) ==
    LET r == dtoi(port, 1)
    IN  ~r.ok \/ r.i # Len(port) + 1

----------------------------------------------------------------------------
(* Addresses, and the collaborators that read them *)

\* strings.IndexByte and the last-colon scan, 1-based, 0 when absent
IndexByte(s, c) ==
    IF \E k \in 1..Len(s) : s[k] = c
    THEN CHOOSE k \in 1..Len(s) : s[k] = c /\ \A j \in 1..(k - 1) : s[j] # c
    ELSE 0

LastIndex(s, c) ==
    IF \E k \in 1..Len(s) : s[k] = c
    THEN CHOOSE k \in 1..Len(s) : s[k] = c /\ \A j \in (k + 1)..Len(s) : s[j] # c
    ELSE 0

Tail0(s, k) == SubSeq(s, k, Len(s))

\* strconv.Itoa of a number that is not negative
RECURSIVE Itoa(_)
Itoa(n) ==
    LET last == <<"0", "1", "2", "3", "4", "5", "6", "7", "8", "9">>[(n % 10) + 1]
    IN  IF n < 10 THEN <<last>> ELSE Append(Itoa(n \div 10), last)

\* a 16-bit group in lower-case hex without leading zeros
RECURSIVE HexString(_)
HexString(g) ==
    LET last == << "0", "1", "2", "3", "4", "5", "6", "7",
                   "8", "9", "a", "b", "c", "d", "e", "f" >>[(g % 16) + 1]
    IN  IF g < 16 THEN <<last>> ELSE Append(HexString(g \div 16), last)

\* the texts of q joined by sep
RECURSIVE JoinWith(_, _)
JoinWith(q, sep) ==
    IF q = <<>> THEN <<>>
    ELSE IF Len(q) = 1 THEN q[1]
    ELSE q[1] \o sep \o JoinWith(Tail(q), sep)

\* net.IP.String: dotted decimal for an IPv4 or IPv4-mapped address, else
\* the eight hex groups with the first longest run of two or more zero
\* groups written as "::"
IPString(ip) ==
    IF IsV4(ip)
    THEN JoinWith([k \in 1..4 |-> Itoa(To4(ip)[k])], <<".">>)
    ELSE LET grp(k)  == ip[2 * k - 1] * 256 + ip[2 * k]
             zeros(i, j) == \A k \in i..j : grp(k) = 0
             runs    == {r \in (1..8) \X (1..8) :
                           r[1] < r[2] /\ zeros(r[1], r[2])}
             longer(a, b) == a[2] - a[1] > b[2] - b[1]
             best    == CHOOSE r \in runs :
                           \A o \in runs :
                              /\ ~longer(o, r)
                              /\ (o[2] - o[1] = r[2] - r[1]) => r[1] <= o[1]
             hex(i, j) == JoinWith([k \in 1..(j - i + 1) |->
                                      HexString(grp(i + k - 1))], <<":">>)
         IN  IF runs = {} THEN hex(1, 8)
             ELSE hex(1, best[1] - 1) \o <<":", ":">> \o hex(best[2] + 1, 8)

\* net.JoinHostPort: a host with a colon in it goes in brackets
JoinHostPort(h, p) ==
    IF IndexByte(h, ":") > 0 \/ IndexByte(h, "%") > 0
    THEN <<"[">> \o h \o <<"]", ":">> \o p
    ELSE h \o <<":">> \o p

\* net.SplitHostPort: [ok, host, port, why]
SplitHostPort(hostport) ==
    LET i    == LastIndex(hostport, ":")
        bad(why) == [ok |-> FALSE, host |-> <<>>, port |-> <<>>, why |-> why]
        good(h, j, k) ==
            IF IndexByte(Tail0(hostport, j), "[") > 0
            THEN bad("unexpected '[' in address")
            ELSE IF IndexByte(Tail0(hostport, k), "]") > 0
            THEN bad("unexpected ']' in address")
            ELSE [ok |-> TRUE, host |-> h,
                  port |-> Tail0(hostport, i + 1), why |-> ""]
    IN  IF i = 0 THEN bad("missing port in address")
        ELSE IF hostport[1] = "["
        THEN LET end == IndexByte(hostport, "]")
             IN  IF end = 0 THEN bad("missing ']' in address")
                 ELSE IF end = Len(hostport) THEN bad("missing port in address")
                 ELSE IF end + 1 = i
                 THEN good(SubSeq(hostport, 2, end - 1), 2, end + 1)
                 ELSE IF hostport[end + 1] = ":"
                 THEN bad("too many colons in address")
                 ELSE bad("missing port in address")
        ELSE LET h == SubSeq(hostport, 1, i - 1)
             IN  IF IndexByte(h, ":") > 0 THEN bad("too many colons in address")
                 ELSE good(h, 1, 1)

\* the texts of the model
S_http == <<"h", "t", "t", "p">>
S_smtp == <<"s", "m", "t", "p">>
H_name == <<"h">>
H_loop6 == <<":", ":", "1">>
\* 127.0.0.1 written dotted, in hex, as one decimal number, zero-padded
H_dotted == <<"1", "2", "7", ".", "0", ".", "0", ".", "1">>
H_hex == <<"0", "x", "7", "f", "0", "0", "0", "0", "0", "1">>
H_dec == <<"2", "1", "3", "0", "7", "0", "6", "4", "3", "3">>
H_pad == <<"0", "0", "0", "1", "2", "7", ".", "0", ".",
           "0", "0", "0", "0", "0", ".", "0", "0", "0", "0", "1">>

\* net.LookupPort: the answers the service database can give, [ok, port]
LookupPort(network, service) ==
    IF service = S_http /\ network = "tcp" THEN {[ok |-> TRUE, port |-> 80]}
    ELSE IF service = S_smtp /\ network = "tcp" THEN {[ok |-> TRUE, port |-> 25]}
    ELSE {[ok |-> FALSE, port |-> 0]}

\* the addresses Dial is called with
Addrs ==
    { H_name \o <<":", "8", "0">>,
      H_name \o <<":", "2", "5">>,
      H_name \o <<":">> \o S_http,
      H_name \o <<":">> \o S_smtp,
      H_name \o <<":", "x">>,
      H_name \o <<":", "6", "5", "6", "1", "6">>,
      H_name,
      <<"[">> \o H_loop6 \o <<"]", ":", "8", "0">>,
      H_dotted \o <<":", "8", "0">>,
      H_hex \o <<":", "8", "0">>,
      H_dec \o <<":", "8", "0">>,
      H_pad \o <<":", "8", "0">>,
      H_loop6 \o <<":", "8", "0">> }

Networks == {"tcp", "udp"}

\* the addresses a name can resolve to
Pub4  == V4(93, 184, 216, 34)
Pub6  == V6(<<9734, 10240, 544, 1, 0, 0, 0, 1>>)
Loop4 == V4(127, 0, 0, 1)
Loop6 == V6(<<0, 0, 0, 0, 0, 0, 0, 1>>)
Link6 == V6(<<65152, 0, 0, 0, 0, 0, 0, 1>>)

IPUniverse == {Pub4, Pub6, Loop4, Link6}

RECURSIVE SeqsUpTo(_, _)
SeqsUpTo(S, n) ==
    IF n = 0 THEN {<<>>}
    ELSE LET shorter == SeqsUpTo(S, n - 1)
         IN  shorter \cup {Append(q, x) : q \in shorter, x \in S}

\* a host whose one address lies in 169.254.0.0/16
H_link == <<"l">>
LinkLocalBytes == {0, 1, 169, 254, 255}
LinkLocal4 == {V4(169, 254, a, b) : a \in LinkLocalBytes, b \in LinkLocalBytes}

\* the ways resolution fails
LookupFailures ==
    {[ok |-> FALSE, ips |-> <<>>, why |-> w] : w \in {"no such host", "i/o timeout"}}

\* net.LookupIP: [ok, ips, why]; an IP literal resolves to itself; the other
\* spellings of 127.0.0.1 resolve to it where the resolver reads them and
\* fail where it does not; a name resolves to any list (the resolver is a
\* black box), or resolution fails
LookupIP(host) ==
    IF host = H_loop6 THEN {[ok |-> TRUE, ips |-> <<Loop6>>, why |-> "ok"]}
    ELSE IF host = H_dotted THEN {[ok |-> TRUE, ips |-> <<Loop4>>, why |-> "ok"]}
    ELSE IF host = H_link
    THEN {[ok |-> TRUE, ips |-> <<ip>>, why |-> "ok"] : ip \in LinkLocal4}
    ELSE IF host \in {H_hex, H_dec, H_pad}
    THEN LookupFailures \cup {[ok |-> TRUE, ips |-> <<Loop4>>, why |-> "ok"]}
    ELSE LookupFailures
           \cup {[ok |-> TRUE, ips |-> q, why |-> "ok"] :
                    q \in SeqsUpTo(IPUniverse, MaxIPs)}

----------------------------------------------------------------------------
(* Errors and connections *)

Err(kind, a, ip, why) == [kind |-> kind, addr |-> a, ip |-> ip, why |-> why]
NoErr == Err("nil", <<>>, <<>>, "")

Conn(network, ip, port) == [network |-> network, ip |-> ip, port |-> port]
NoConn == Conn("", <<>>, -1)

\* go's integer division truncates toward zero
Quot(a, b) == IF a >= 0 THEN a \div b ELSE -((-a) \div b)

\* 2*time.Second
TwoSeconds == 2

\* parsePort without the check of the range 0..0xFFFF
parsePort_norange(network, port, ans) ==
    LET r == dtoi(port, 1)
        p == IF NeedsLookupPort(port) THEN ans.port ELSE r.n
    IN  IF NeedsLookupPort(port) /\ ~ans.ok
        THEN [ok |-> FALSE, port |-> 0, err |-> Err("unknown port", <<>>, <<>>, network)]
        ELSE [ok |-> TRUE, port |-> p, err |-> NoErr]

\* parsePort(network, port), `ans` being what net.LookupPort answers if asked
parsePort(network, port, ans) ==
    LET r == dtoi(port, 1)
        p == IF NeedsLookupPort(port) THEN ans.port ELSE r.n
    IN  IF NeedsLookupPort(port) /\ ~ans.ok
        THEN [ok |-> FALSE, port |-> 0, err |-> Err("unknown port", <<>>, <<>>, network)]
        ELSE IF p < 0 \/ p > 65535
        THEN [ok |-> FALSE, port |-> 0, err |-> Err("invalid port", port, <<>>, "")]
        ELSE [ok |-> TRUE, port |-> p, err |-> NoErr]

----------------------------------------------------------------------------
(* The time budget of dialSerial *)

\* EffectiveDeadline without the deadline derived from the Timeout
EffectiveDeadline_configured(dl, t) == dl.Deadline

\* EffectiveDeadline keeping the later of the two deadlines
EffectiveDeadline_later(dl, t) ==
    IF dl.Timeout > 0
    THEN LET newDeadline == t + dl.Timeout
         IN  IF dl.Deadline = 0 \/ newDeadline > dl.Deadline
             THEN newDeadline ELSE dl.Deadline
    ELSE dl.Deadline

\* the Deadline dialSerial gives its net.Dialer (0: none), called at time t
EffectiveDeadline(dl, t) ==
    IF dl.Timeout > 0
    THEN LET newDeadline == t + dl.Timeout
         IN  IF dl.Deadline = 0 \/ newDeadline < dl.Deadline
             THEN newDeadline ELSE dl.Deadline
    ELSE dl.Deadline

\* AttemptTimeout never capped by the configured Timeout
AttemptTimeout_uncapped(dl, t, n) ==
    LET deadline == EffectiveDeadline(dl, t)
    IN  IF deadline # 0
        THEN LET perIP == Quot(deadline - t, n)
             IN  IF perIP < TwoSeconds THEN TwoSeconds ELSE perIP
        ELSE dl.Timeout

\* AttemptTimeout without the floor of two seconds
AttemptTimeout_nofloor(dl, t, n) ==
    LET deadline == EffectiveDeadline(dl, t)
    IN  IF deadline # 0
        THEN LET newTimeout == Quot(deadline - t, n)
             IN  IF dl.Timeout = 0 \/ newTimeout < dl.Timeout
                 THEN newTimeout ELSE dl.Timeout
        ELSE dl.Timeout

\* the Timeout dialSerial gives its net.Dialer for n candidates, n > 0
AttemptTimeout(dl, t, n) ==
    LET deadline == EffectiveDeadline(dl, t)
    IN  IF deadline # 0
        THEN LET totalTime  == deadline - t
                 perIP      == Quot(totalTime, n)
                 newTimeout == IF perIP < TwoSeconds THEN TwoSeconds ELSE perIP
             IN  IF dl.Timeout = 0 \/ newTimeout < dl.Timeout
                 THEN newTimeout ELSE dl.Timeout
        ELSE dl.Timeout

\* net.Dialer.deadline: when an attempt started at t must end (0: never)
AttemptEnd(nd, t) ==
    LET byTimeout == IF nd.Timeout # 0 THEN t + nd.Timeout ELSE 0
    IN  IF byTimeout = 0 THEN nd.Deadline
        ELSE IF nd.Deadline = 0 THEN byTimeout
        ELSE IF byTimeout < nd.Deadline THEN byTimeout ELSE nd.Deadline

\* AttemptOutcomes of a net.Dialer that does not look at its deadline
AttemptOutcomes_ignoringDeadline(nd, t) ==
    {[out |-> o, took |-> k] : o \in {"ok", "refused"}, k \in 0..MaxAttempt}
       \cup {[out |-> "timeout", took |-> MaxAttempt]}

\* net.Dialer.Dial to one IP literal: how it can end, and after how long
AttemptOutcomes(nd, t) ==
    LET end == AttemptEnd(nd, t)
    IN  IF end = 0
        THEN {[out |-> o, took |-> k] : o \in {"ok", "refused"}, k \in 0..MaxAttempt}
               \cup {[out |-> "timeout", took |-> MaxAttempt]}
        ELSE IF end <= t
        THEN {[out |-> "timeout", took |-> 0]}
        ELSE {[out |-> o, took |-> k] : o \in {"ok", "refused"}, k \in 0..(end - t - 1)}
               \cup {[out |-> "timeout", took |-> end - t]}

----------------------------------------------------------------------------
(* One call of Dialer.Dial *)

VARIABLES
    d,            \* the Dialer the call is made on
    network,      \* Dial's arguments
    addr,
    pc,           \* where the call stands
    host,         \* locals of Dial
    port,
    portnum,      \*   (-1: not parsed yet)
    ips,
    dialer,       \* locals of dialSerial: its net.Dialer,
    idx,          \*   the position of its loop (1-based),
    firstErr,     \*   and the first error
    now,          \* the clock
    conn,         \* what Dial returned
    err,
    calls,        \* history: the collaborators called, in order
    serialStart   \* history: the time dialSerial was entered (0: not yet)

vars == << d, network, addr, pc, host, port, portnum, ips, dialer, idx,
           firstErr, now, conn, err, calls, serialStart >>

Call(op, ip, out) == [op |-> op, ip |-> ip, at |-> now, out |-> out]

NoDialer == [Timeout |-> 0, Deadline |-> 0, KeepAlive |-> 0, LocalAddr |-> "nil"]

Policies == {DefaultDialer, MailDialer}

\* the time budgets a caller configures: Timeout and Deadline
Budgets == (0..MaxTimeout) \X (0..MaxDeadline)

InitWith(policies, networks, addrs, budgets) ==
    /\ \E base \in policies, b \in budgets : d = WithBudget(base, b[1], b[2])
    /\ network \in networks
    /\ addr \in addrs
    /\ pc = "Dial"
    /\ host = <<>>
    /\ port = <<>>
    /\ portnum = -1
    /\ ips = <<>>
    /\ dialer = NoDialer
    /\ idx = 0
    /\ firstErr = NoErr
    /\ now = Epoch
    /\ conn = NoConn
    /\ err = NoErr
    /\ calls = <<>>
    /\ serialStart = 0

Return(c, e) ==
    /\ conn' = c
    /\ err' = e
    /\ pc' = "done"

\* Dial: the network must be allowed
CheckNet ==
    /\ pc = "Dial"
    /\ IF ~allowedNet(d, network)
       THEN Return(NoConn, Err("invalid net", addr, <<>>, network))
       ELSE pc' = "split" /\ UNCHANGED <<conn, err>>
    /\ UNCHANGED << d, network, addr, host, port, portnum, ips, dialer, idx,
                    firstErr, now, calls, serialStart >>

\* Dial: net.SplitHostPort(addr)
Split ==
    /\ pc = "split"
    /\ calls' = Append(calls, Call("SplitHostPort", <<>>, ""))
    /\ LET r == SplitHostPort(addr)
       IN  IF ~r.ok
           THEN /\ Return(NoConn, Err("address", addr, <<>>, r.why))
                /\ UNCHANGED <<host, port>>
           ELSE /\ host' = r.host
                /\ port' = r.port
                /\ pc' = "parsePort"
                /\ UNCHANGED <<conn, err>>
    /\ UNCHANGED << d, network, addr, portnum, ips, dialer, idx, firstErr, now,
                    serialStart >>

\* Dial: parsePort(network, port)
ParsePort ==
    /\ pc = "parsePort"
    /\ \E ans \in LookupPort(network, port) :
         LET r == parsePort(network, port, ans)
         IN  /\ calls' = IF NeedsLookupPort(port)
                         THEN calls \o << Call("parsePort", <<>>, ""),
                                          Call("LookupPort", <<>>, "") >>
                         ELSE Append(calls, Call("parsePort", <<>>, ""))
             /\ IF ~r.ok
                THEN Return(NoConn, r.err) /\ UNCHANGED portnum
                ELSE /\ portnum' = r.port
                     /\ pc' = "checkPort"
                     /\ UNCHANGED <<conn, err>>
    /\ UNCHANGED << d, network, addr, host, port, ips, dialer, idx, firstErr,
                    now, serialStart >>

\* Dial: the port must be allowed
CheckPort ==
    /\ pc = "checkPort"
    /\ IF ~allowedPort(d, ToInt16(portnum))
       THEN Return(NoConn, Err("blocked port", addr, <<>>, ""))
       ELSE pc' = "lookupIP" /\ UNCHANGED <<conn, err>>
    /\ UNCHANGED << d, network, addr, host, port, portnum, ips, dialer, idx,
                    firstErr, now, calls, serialStart >>

\* the error value net.LookupIP returns for `h` when it fails for `why`
LookupError(h, why) == Err("lookup", h, <<>>, why)

\* what Dial returns with the resolver's error e, wrapped in its own error
LookupFailure_wrapped(a, e) == Err("lookup failed", a, <<>>, e.why)

\* what Dial returns with the resolver's error e: e itself
LookupFailure(a, e) == e

\* Dial: net.LookupIP(host), whose error is returned as it is
ResolveHost ==
    /\ pc = "lookupIP"
    /\ \E r \in LookupIP(host) :
         /\ calls' = Append(calls, Call("LookupIP", <<>>, r.why))
         /\ IF ~r.ok
            THEN /\ Return(NoConn, LookupFailure(addr, LookupError(host, r.why)))
                 /\ UNCHANGED ips
            ELSE /\ ips' = r.ips
                 /\ pc' = "checkIPs"
                 /\ UNCHANGED <<conn, err>>
    /\ UNCHANGED << d, network, addr, host, port, portnum, dialer, idx,
                    firstErr, now, serialStart >>

\* FirstBlocked looking at the first resolved IP only
FirstBlocked_first(dl, list) ==
    IF Len(list) > 0 /\ ~allowedIP(dl, list[1]) THEN 1 ELSE 0

\* FirstBlocked reporting the last blocked IP instead
FirstBlocked_last(dl, list) ==
    IF \E k \in 1..Len(list) : ~allowedIP(dl, list[k])
    THEN CHOOSE k \in 1..Len(list) :
            /\ ~allowedIP(dl, list[k])
            /\ \A j \in (k + 1)..Len(list) : allowedIP(dl, list[j])
    ELSE 0

\* the position of the first IP of `list` the policy blocks, 0 if none
FirstBlocked(dl, list) ==
    IF \E k \in 1..Len(list) : ~allowedIP(dl, list[k])
    THEN CHOOSE k \in 1..Len(list) :
            /\ ~allowedIP(dl, list[k])
            /\ \A j \in 1..(k - 1) : allowedIP(dl, list[j])
    ELSE 0

\* CheckIPs trusting every host that is not written as dotted decimal
CheckIPs_bySpelling ==
    /\ pc = "checkIPs"
    /\ LET literal == \A i \in 1..Len(host) : host[i] \in Digits \cup {"."}
           b == IF literal THEN FirstBlocked(d, ips) ELSE 0
           n == IF b = 0 THEN Len(ips) ELSE b
       IN  /\ calls' = calls \o [k \in 1..n |-> Call("allowedIP", ips[k], "")]
           /\ IF b # 0
              THEN Return(NoConn, Err("blocked range", addr, ips[b], ""))
              ELSE pc' = "dialSerial" /\ UNCHANGED <<conn, err>>
    /\ UNCHANGED << d, network, addr, host, port, portnum, ips, dialer, idx,
                    firstErr, now, serialStart >>

\* Dial: every resolved IP must be allowed
CheckIPs ==
    /\ pc = "checkIPs"
    /\ LET b == FirstBlocked(d, ips)
           n == IF b = 0 THEN Len(ips) ELSE b
       IN  /\ calls' = calls \o [k \in 1..n |-> Call("allowedIP", ips[k], "")]
           /\ IF b # 0
              THEN Return(NoConn, Err("blocked range", addr, ips[b], ""))
              ELSE pc' = "dialSerial" /\ UNCHANGED <<conn, err>>
    /\ UNCHANGED << d, network, addr, host, port, portnum, ips, dialer, idx,
                    firstErr, now, serialStart >>

\* SerialSetup storing the deadline it computed in the Dialer itself
SerialSetup_sharedBudget ==
    /\ pc = "dialSerial"
    /\ serialStart' = now
    /\ IF EffectiveDeadline(d, now) # 0 /\ Len(ips) = 0
       THEN /\ pc' = "panic"
            /\ UNCHANGED <<d, dialer, idx, firstErr>>
       ELSE /\ d' = [d EXCEPT !.Deadline = EffectiveDeadline(d, now)]
            /\ dialer' = [ Timeout   |-> AttemptTimeout(d, now, Len(ips)),
                           Deadline  |-> EffectiveDeadline(d, now),
                           KeepAlive |-> d.KeepAlive,
                           LocalAddr |-> d.LocalAddr ]
            /\ idx' = 1
            /\ firstErr' = NoErr
            /\ pc' = "loop"
    /\ UNCHANGED << network, addr, host, port, portnum, ips, now, conn, err,
                    calls >>

\* dialSerial up to its loop: the net.Dialer and its time budget; dividing
\* the time left by len(ips) = 0 panics
SerialSetup ==
    /\ pc = "dialSerial"
    /\ serialStart' = now
    /\ IF EffectiveDeadline(d, now) # 0 /\ Len(ips) = 0
       THEN /\ pc' = "panic"
            /\ UNCHANGED <<dialer, idx, firstErr>>
       ELSE /\ dialer' = [ Timeout   |-> AttemptTimeout(d, now, Len(ips)),
                           Deadline  |-> EffectiveDeadline(d, now),
                           KeepAlive |-> d.KeepAlive,
                           LocalAddr |-> d.LocalAddr ]
            /\ idx' = 1
            /\ firstErr' = NoErr
            /\ pc' = "loop"
    /\ UNCHANGED << d, network, addr, host, port, portnum, ips, now, conn, err,
                    calls >>

\* ConnectTo handing over the host and port as Dial was given them
ConnectTo_asGiven(ip, pn) == JoinHostPort(host, port)

\* the address dialSerial hands to dialer.Dial for the candidate ip:
\* net.JoinHostPort(ip.String(), strconv.Itoa(portnum))
ConnectTo(ip, pn) == JoinHostPort(IPString(ip), Itoa(pn))

\* the history entry of one dialer.Dial call, with the address handed over
ConnectCall(ip, out) ==
    Call("connect", ip, out) @@ [to |-> ConnectTo(ip, portnum)]

\* RecordErr keeping the last error instead
RecordErr_last(first, e) == e

\* dialSerial keeps the first error of its loop
RecordErr(first, e) == IF first = NoErr THEN e ELSE first

\* the loop body going on to the next candidate after a success
Attempt_keepGoing ==
    /\ pc = "loop"
    /\ idx <= Len(ips)
    /\ \E o \in AttemptOutcomes(dialer, now) :
         /\ now' = now + o.took
         /\ calls' = Append(calls, ConnectCall(ips[idx], o.out))
         /\ idx' = idx + 1
         /\ IF o.out = "ok"
            THEN /\ conn' = Conn(network, ips[idx], portnum)
                 /\ err' = NoErr
                 /\ pc' = IF idx = Len(ips) THEN "done" ELSE pc
                 /\ UNCHANGED firstErr
            ELSE /\ firstErr' = RecordErr(firstErr,
                                          Err("connect", <<>>, ips[idx], o.out))
                 /\ UNCHANGED <<pc, conn, err>>
    /\ UNCHANGED << d, network, addr, host, port, portnum, ips, dialer,
                    serialStart >>

\* the loop body ranging over the candidates from the last to the first
Attempt_backwards ==
    /\ pc = "loop"
    /\ idx <= Len(ips)
    /\ \E o \in AttemptOutcomes(dialer, now) :
         LET ip == ips[Len(ips) + 1 - idx]
         IN  /\ now' = now + o.took
             /\ calls' = Append(calls, ConnectCall(ip, o.out))
             /\ IF o.out = "ok"
                THEN /\ Return(Conn(network, ip, portnum), NoErr)
                     /\ UNCHANGED <<idx, firstErr>>
                ELSE /\ firstErr' = RecordErr(firstErr,
                                              Err("connect", <<>>, ip, o.out))
                     /\ idx' = idx + 1
                     /\ UNCHANGED <<pc, conn, err>>
    /\ UNCHANGED << d, network, addr, host, port, portnum, ips, dialer,
                    serialStart >>

\* dialSerial's loop body: dialer.Dial(network, JoinHostPort(ip, port))
Attempt ==
    /\ pc = "loop"
    /\ idx <= Len(ips)
    /\ \E o \in AttemptOutcomes(dialer, now) :
         /\ now' = now + o.took
         /\ calls' = Append(calls, ConnectCall(ips[idx], o.out))
         /\ IF o.out = "ok"
            THEN /\ Return(Conn(network, ips[idx], portnum), NoErr)
                 /\ UNCHANGED <<idx, firstErr>>
            ELSE /\ firstErr' = RecordErr(firstErr,
                                          Err("connect", <<>>, ips[idx], o.out))
                 /\ idx' = idx + 1
                 /\ UNCHANGED <<pc, conn, err>>
    /\ UNCHANGED << d, network, addr, host, port, portnum, ips, dialer,
                    serialStart >>

\* dialSerial after its loop: the first error, or "no IP addresses found"
SerialFail ==
    /\ pc = "loop"
    /\ idx > Len(ips)
    /\ Return(NoConn, IF firstErr = NoErr
                      THEN Err("no IP addresses found", addr, <<>>, "")
                      ELSE firstErr)
    /\ UNCHANGED << d, network, addr, host, port, portnum, ips, dialer, idx,
                    firstErr, now, calls, serialStart >>

Next ==
    \/ CheckNet
    \/ Split
    \/ ParsePort
    \/ CheckPort
    \/ ResolveHost
    \/ CheckIPs
    \/ SerialSetup
    \/ Attempt
    \/ SerialFail

\* every policy, network and address, under a few time budgets
Init ==
    InitWith(Policies, Networks, Addrs,
             {<<0, 0>>, <<TwoSeconds, 0>>, <<0, Epoch + 1>>})

Spec == Init /\ [][Next]_vars

\* the serial connector under every time budget
InitSerial ==
    InitWith({DefaultDialer}, {"tcp"}, {H_name \o <<":", "8", "0">>}, Budgets)

SpecSerial == InitSerial /\ [][Next]_vars

\* a Dialer whose AllowedPorts holds negative int16 values
PortsDialer == [DefaultDialer EXCEPT !.AllowedPorts = <<80, -1, -32768>>]

\* the ports dialed under PortsDialer
PortAddrs ==
    { H_name \o <<":">> \o p :
        p \in { <<"8", "0">>, <<"2", "5">>, <<"3", "2", "7", "6", "7">>,
                <<"3", "2", "7", "6", "8">>, <<"6", "5", "5", "3", "5">>,
                <<"6", "5", "6", "1", "6">> } }

InitPorts == InitWith({PortsDialer}, {"tcp"}, PortAddrs, {<<0, 0>>})

SpecPorts == InitPorts /\ [][Next]_vars

\* the port texts parsePort is given: every text of up to MaxPortLen
\* characters over PortAlphabet, the two service names and the values
\* next to 0xFFFF and to big
MaxPortLen == 5
PortAlphabet == {"0", "5", "6", "x"}
PortTexts ==
    SeqsUpTo(PortAlphabet, MaxPortLen)
      \cup { S_http, S_smtp,
             <<"6", "5", "5", "3", "5">>, <<"6", "5", "5", "3", "6">>,
             <<"1", "6", "7", "7", "7", "2", "1", "4">>,
             <<"1", "6", "7", "7", "7", "2", "1", "5">> }

\* Dial about to call parsePort(network, port)
InitParsePort ==
    /\ d = DefaultDialer
    /\ network \in Networks
    /\ port \in PortTexts
    /\ addr = H_name \o <<":">> \o port
    /\ host = H_name
    /\ pc = "parsePort"
    /\ portnum = -1
    /\ ips = <<>>
    /\ dialer = NoDialer
    /\ idx = 0
    /\ firstErr = NoErr
    /\ now = Epoch
    /\ conn = NoConn
    /\ err = NoErr
    /\ calls = << [op |-> "SplitHostPort", ip |-> <<>>, at |-> Epoch, out |-> ""] >>
    /\ serialStart = 0

SpecParsePort == InitParsePort /\ [][ParsePort]_vars

\* addresses of every class allowedIP tells apart, and of none
SampleIPs ==
    { Pub4, Pub6, Loop4, Loop6, Link6,
      V4(10, 1, 2, 3), V4(172, 31, 0, 1), V4(172, 32, 0, 1), V4(192, 168, 1, 1),
      V4(169, 254, 0, 1), V4(224, 0, 0, 1), V4(239, 1, 1, 1), V4(0, 0, 0, 0),
      V6(<<0, 0, 0, 0, 0, 0, 0, 0>>),
      V6(<<0, 0, 0, 0, 0, 65535, 32512, 1>>),
      V6(<<64768, 0, 0, 0, 0, 0, 0, 1>>),
      V6(<<65281, 0, 0, 0, 0, 0, 0, 1>>),
      V6(<<65282, 0, 0, 0, 0, 0, 0, 1>>),
      V6(<<65294, 0, 0, 0, 0, 0, 0, 1>>) }

\* lists of blocked ranges, two of them the same ranges in opposite order
RangeLists ==
    { <<>>,
      << Range4(127, 0, 0, 0, 8) >>,
      << Range4(93, 184, 0, 0, 16), Range6(<<65280, 0, 0, 0, 0, 0, 0, 0>>, 8) >>,
      << Range6(<<65280, 0, 0, 0, 0, 0, 0, 0>>, 8), Range4(93, 184, 0, 0, 16) >>,
      DefaultBlockedRanges,
      LegacyBlockedRanges }

\* Dialers with every setting of the four Block* flags over those lists
FlagPolicies ==
    { [ DefaultDialer EXCEPT
          !.BlockedRanges    = r,
          !.BlockPrivate     = f[1],
          !.BlockLinkLocal   = f[2],
          !.BlockMulticast   = f[3],
          !.BlockUnspecified = f[4] ] :
        r \in RangeLists, f \in BOOLEAN \X BOOLEAN \X BOOLEAN \X BOOLEAN }

\* Dial about to call allowedIP on the one address its host resolved to
InitAllowedIP ==
    /\ d \in FlagPolicies
    /\ network = "tcp"
    /\ addr = H_name \o <<":", "8", "0">>
    /\ host = H_name
    /\ port = <<"8", "0">>
    /\ pc = "checkIPs"
    /\ portnum = 80
    /\ \E ip \in SampleIPs : ips = <<ip>>
    /\ dialer = NoDialer
    /\ idx = 0
    /\ firstErr = NoErr
    /\ now = Epoch
    /\ conn = NoConn
    /\ err = NoErr
    /\ calls = [k \in 1..3 |->
                  [op |-> <<"SplitHostPort", "parsePort", "LookupIP">>[k],
                   ip |-> <<>>, at |-> Epoch,
                   out |-> IF k = 3 THEN "ok" ELSE ""]]
    /\ serialStart = 0

SpecAllowedIP == InitAllowedIP /\ [][CheckIPs]_vars

\* a link-local host dialed with the default policy of either dialer file
InitLinkLocal ==
    InitWith({DefaultDialer, LegacyDefaultDialer}, {"tcp"},
             {H_link \o <<":", "8", "0">>}, {<<0, 0>>})

SpecLinkLocal == InitLinkLocal /\ [][Next]_vars

----------------------------------------------------------------------------
(* Properties *)

ElemsOf(q) == {q[k] : k \in 1..Len(q)}

\* allowedIP tabulated once per policy: the addresses each policy lets pass
AllowedSet == [p \in Policies |-> {ip \in IPUniverse \cup {Loop6} : allowedIP(p, ip)}]

\* allowedIP(dl, ip), read from the table (the time budget plays no part)
Passes(dl, ip) == ip \in AllowedSet[WithBudget(dl, 0, 0)]

\* the positions in the history of the calls of a collaborator
CallsOf(op) == {k \in 1..Len(calls) : calls[k].op = op}

\* the connect attempts made so far, in order
Connects == SelectSeq(calls, LAMBDA c : c.op = "connect")

\* C1: a connect attempt is made only after every pre-flight check has
\* passed (allowed network, address split, port parsed to a number of the
\* allow-list, host resolved, every resolved IP allowed and checked), every
\* connection returned is to an allowed IP, port and network, and an error
\* never comes with a connection.
C1_ConnectOnlyAfterPreflight ==
    /\ CallsOf("connect") # {} =>
          /\ network \in ElemsOf(d.AllowedNets)
          /\ SplitHostPort(addr).ok
          /\ CallsOf("SplitHostPort") # {}
          /\ CallsOf("parsePort") # {}
          /\ portnum \in ElemsOf(d.AllowedPorts)
          /\ Cardinality(CallsOf("LookupIP")) = 1
          /\ Cardinality(CallsOf("allowedIP")) = Len(ips)
          /\ \A j \in 1..Len(ips) : Passes(d, ips[j])
          /\ \A k \in CallsOf("connect") :
                /\ calls[k].ip \in ElemsOf(ips)
                /\ \A m \in 1..Len(calls) :
                      calls[m].op # "connect" => m < k
    /\ conn # NoConn =>
          /\ err = NoErr
          /\ conn.network \in ElemsOf(d.AllowedNets)
          /\ conn.port \in ElemsOf(d.AllowedPorts)
          /\ conn.ip \in ElemsOf(ips)
          /\ Passes(d, conn.ip)
    /\ err # NoErr => conn = NoConn

\* a connection is returned to the second of two allowed addresses
C1_Witness ==
    /\ pc = "done"
    /\ conn = Conn("tcp", Pub6, 80)
    /\ ips = <<Pub4, Pub6>>
    /\ Len(Connects) = 2

\* C2: when a resolved IP is blocked, wherever it stands in the list, Dial
\* makes no connect attempt and fails with the blocked-range error.
C2_AnyBlockedIPRejectsAll ==
    (\E k \in 1..Len(ips) : ~Passes(d, ips[k])) =>
        /\ CallsOf("connect") = {}
        /\ pc \in {"checkIPs", "done"}
        /\ pc = "done" => conn = NoConn /\ err.kind = "blocked range"

\* the last of three resolved addresses is the blocked one
C2_Witness ==
    /\ pc = "done"
    /\ ips = <<Pub4, Pub6, Loop4>>
    /\ err.kind = "blocked range"
    /\ CallsOf("connect") = {}

\* C3: over an allowed network, a port that parses to a number outside the
\* allow-list ends Dial with the blocked-port error, and net.LookupIP is
\* never called.
C3_BlockedPortBeforeLookup ==
    ( /\ network \in ElemsOf(d.AllowedNets)
      /\ portnum # -1
      /\ portnum \notin ElemsOf(d.AllowedPorts) ) =>
        /\ CallsOf("LookupIP") = {}
        /\ CallsOf("connect") = {}
        /\ pc \in {"checkPort", "done"}
        /\ pc = "done" => conn = NoConn /\ err.kind = "blocked port"

\* the service name smtp is looked up, gives 25, and is refused
C3_Witness ==
    /\ pc = "done"
    /\ d.AllowedPorts = DefaultDialer.AllowedPorts
    /\ port = S_smtp
    /\ portnum = 25
    /\ err = Err("blocked port", addr, <<>>, "")

\* C4: over a network that is not allowed Dial fails with the invalid-net
\* error before the address is split, the port parsed or looked up, or the
\* host resolved, whatever the address.
C4_InvalidNetFirst ==
    network \notin ElemsOf(d.AllowedNets) =>
        /\ calls = <<>>
        /\ pc \in {"Dial", "done"}
        /\ pc = "done" => conn = NoConn /\ err.kind = "invalid net"

\* udp is refused with an address that has no port
C4_Witness ==
    /\ pc = "done"
    /\ network = "udp"
    /\ ~SplitHostPort(addr).ok
    /\ err = Err("invalid net", addr, <<>>, "udp")

\* C5: the first successful attempt ends the serial connector: it is the
\* last attempt made, the k-th attempt is to the k-th candidate, and its
\* connection is what Dial returns.
C5_FirstSuccessEndsLoop ==
    \A k \in 1..Len(Connects) :
        Connects[k].out = "ok" =>
            /\ k = Len(Connects)
            /\ \A j \in 1..(k - 1) : Connects[j].out # "ok"
            /\ Connects[k].ip = ips[k]
            /\ pc = "done"
            /\ conn = Conn(network, ips[k], portnum)
            /\ err = NoErr

\* the second of three candidates connects; the third is never tried
C5_Witness ==
    /\ pc = "done"
    /\ Len(ips) = MaxIPs
    /\ Len(Connects) = 2
    /\ Connects[1].out = "refused"
    /\ Connects[2].out = "ok"
    /\ conn.ip = ips[2]

\* C6: when every candidate of a non-empty list has failed, Dial returns no
\* connection and the error of the attempt to the first candidate.
C6_FirstErrorWins ==
    ( /\ pc = "done"
      /\ Len(ips) > 0
      /\ Len(Connects) = Len(ips)
      /\ \A k \in 1..Len(Connects) : Connects[k].out # "ok" ) =>
        /\ conn = NoConn
        /\ err = Err("connect", <<>>, ips[1], Connects[1].out)

\* two candidates fail for different reasons; the first reason is returned
C6_Witness ==
    /\ pc = "done"
    /\ ips = <<Pub4, Pub6>>
    /\ Len(Connects) = 2
    /\ Connects[1].out = "refused"
    /\ Connects[2].out = "timeout"
    /\ err = Err("connect", <<>>, Pub4, "refused")

\* C7: with an empty candidate list the serial connector returns the "no IP
\* addresses found" error naming the address, under every time budget.
C7_EmptyListNoAddressError ==
    (serialStart # 0 /\ ips = <<>>) =>
        /\ pc \in {"loop", "done"}
        /\ pc = "done" =>
              conn = NoConn /\ err = Err("no IP addresses found", addr, <<>>, "")

\* C8: with a Timeout T > 0 and at least one candidate, the time spent in
\* the serial connector never exceeds T, however many candidates fail.
C8_TotalTimeWithinTimeout ==
    (serialStart # 0 /\ d.Timeout > 0 /\ Len(ips) >= 1) =>
        now - serialStart <= d.Timeout

\* three candidates fail one after the other and use up the whole Timeout
C8_Witness ==
    /\ pc = "done"
    /\ conn = NoConn
    /\ d.Timeout = MaxTimeout
    /\ d.Deadline = 0
    /\ Len(Connects) = 3
    /\ Connects[2].at > Connects[1].at
    /\ Connects[3].at > Connects[2].at
    /\ now - serialStart = d.Timeout

\* the time the attempt recorded as c could use before net.Dialer ends it
Allotted(c) == AttemptEnd(dialer, c.at) - c.at

\* C9 as stated: with a Timeout T of two seconds or more (and no Deadline)
\* every candidate has at least two seconds for its attempt.
C9_EveryCandidateGetsTwoSeconds ==
    (d.Timeout >= TwoSeconds /\ d.Deadline = 0) =>
        \A k \in 1..Len(Connects) : Allotted(Connects[k]) >= TwoSeconds

\* C9 amended: with a Timeout T > 0 the per-attempt timeout given to the
\* connector is at least two seconds, or T when T is smaller; what a
\* candidate can use is that or the time left to the deadline, if less.
C9_AttemptTimeoutFloor ==
    (pc \in {"loop", "done"} /\ serialStart # 0 /\ d.Timeout > 0) =>
        /\ d.Timeout >= TwoSeconds => dialer.Timeout >= TwoSeconds
        /\ d.Timeout < TwoSeconds => dialer.Timeout = d.Timeout
        /\ dialer.Timeout <= d.Timeout
        /\ \A k \in 1..Len(Connects) :
              LET left == dialer.Deadline - Connects[k].at
              IN  Allotted(Connects[k]) =
                     IF left < dialer.Timeout THEN left ELSE dialer.Timeout

\* a later candidate is left with less than the two-second attempt timeout
C9_Witness ==
    /\ d.Timeout > TwoSeconds
    /\ d.Deadline = 0
    /\ dialer.Timeout = TwoSeconds
    /\ Len(Connects) = 2
    /\ Allotted(Connects[1]) = TwoSeconds
    /\ Allotted(Connects[2]) = 1

Earlier(a, b) == IF a < b THEN a ELSE b

\* C10: the deadline the serial connector uses is now+Timeout with only a
\* Timeout, the Deadline with only a Deadline, the earlier of the two with
\* both, none with neither; it is never later than a configured Deadline.
C10_EffectiveDeadline ==
    (pc \in {"loop", "done"} /\ serialStart # 0) =>
        /\ (d.Timeout > 0 /\ d.Deadline = 0) =>
              dialer.Deadline = serialStart + d.Timeout
        /\ (d.Timeout = 0 /\ d.Deadline # 0) =>
              dialer.Deadline = d.Deadline
        /\ (d.Timeout > 0 /\ d.Deadline # 0) =>
              dialer.Deadline = Earlier(serialStart + d.Timeout, d.Deadline)
        /\ (d.Timeout = 0 /\ d.Deadline = 0) =>
              dialer.Deadline = 0
        /\ d.Deadline # 0 => (dialer.Deadline # 0 /\ dialer.Deadline <= d.Deadline)

\* both are configured and the Timeout ends before the Deadline
C10_Witness ==
    /\ pc = "loop"
    /\ d.Timeout > 0
    /\ d.Deadline # 0
    /\ serialStart + d.Timeout < d.Deadline
    /\ dialer.Deadline = serialStart + d.Timeout
    /\ Len(Connects) = 1

\* the failed call of net.LookupIP in the history, if there is one
FailedLookups == {k \in CallsOf("LookupIP") : calls[k].out # "ok"}

\* C11: when host resolution fails, Dial returns the resolver's own error
\* value and no connection, checks no IP and makes no connect attempt.
C11_LookupErrorVerbatim ==
    \A k \in FailedLookups :
        /\ k = Len(calls)
        /\ pc = "done"
        /\ conn = NoConn
        /\ err = LookupError(host, calls[k].out)
        /\ ips = <<>>
        /\ CallsOf("allowedIP") = {}
        /\ CallsOf("connect") = {}

\* the name h does not resolve
C11_Witness ==
    /\ pc = "done"
    /\ host = H_name
    /\ FailedLookups # {}
    /\ err = Err("lookup", H_name, <<>>, "no such host")

\* C12: under the default policy a host whose address lies in
\* 169.254.0.0/16 is never connected to: Dial fails with the blocked-range
\* error.
C12_DefaultBlocksLinkLocal ==
    (ips # <<>> /\ \A k \in 1..Len(ips) : ips[k] \in LinkLocal4) =>
        /\ CallsOf("connect") = {}
        /\ pc \in {"checkIPs", "done"}
        /\ pc = "done" => conn = NoConn /\ err.kind = "blocked range"

\* the same for the DefaultDialer that lists 169.254.0.0/16 and sets
\* BlockLinkLocal
DefaultDialerBlocksLinkLocal ==
    Range4(169, 254, 0, 0, 16) \in ElemsOf(d.BlockedRanges) =>
        C12_DefaultBlocksLinkLocal

\* the positions of ips the policy of this call blocks
BlockedAt == {k \in 1..Len(ips) : ~Passes(d, ips[k])}

\* C13: once the resolved IPs have been checked, Dial has failed with the
\* blocked-range error exactly when the resolved list holds a blocked IP,
\* however the host was written.
C13_DecisionFromResolvedIPs ==
    (ips # <<>> /\ pc # "checkIPs") =>
        /\ (pc = "done" /\ err.kind = "blocked range") <=> (BlockedAt # {})
        /\ BlockedAt # {} =>
              /\ conn = NoConn
              /\ err.ip \in {ips[k] : k \in BlockedAt}
              /\ CallsOf("connect") = {}

\* a host written in hex that resolves to loopback is rejected
C13_Witness ==
    /\ pc = "done"
    /\ host = H_hex
    /\ ips = <<Loop4>>
    /\ err.kind = "blocked range"
    /\ err.ip = Loop4

C15_AttemptsArePrefix ==
    /\ Len(Connects) <= Len(ips)
    /\ \A k \in 1..Len(Connects) : Connects[k].ip = ips[k]
    /\ \A k \in 1..(Len(Connects) - 1) :
          /\ Connects[k].out # "ok"
          /\ Connects[k].at <= Connects[k + 1].at
    /\ pc = "loop" => Len(Connects) = idx - 1

\* three different candidates, all tried, the last one connected
C15_Witness ==
    /\ pc = "done"
    /\ ips = <<Pub4, Pub6, Link6>>
    /\ d = WithBudget(MailDialer, 0, 0)
    /\ Len(Connects) = 3
    /\ Connects[3].out = "ok"

\* the deadline of the call, from the Dialer and the time dialSerial began
Due ==
    IF d.Timeout = 0 THEN d.Deadline
    ELSE IF d.Deadline = 0 THEN serialStart + d.Timeout
    ELSE Earlier(serialStart + d.Timeout, d.Deadline)

\* the connect calls made at or after the deadline
LateAttempts == {k \in 1..Len(Connects) : Connects[k].at >= Due}

\* C16 as stated: no candidate is handed to the connector once the
\* deadline of the call has passed.
C16_NoAttemptAfterDeadline ==
    (pc \in {"loop", "done"} /\ serialStart # 0 /\ Due # 0) =>
        LateAttempts = {}

\* C16 amended: dialSerial hands every remaining candidate to net.Dialer
\* whether or not time is left; a call made at or after the deadline fails
\* at once with a timeout, so that Dial returns its first error without
\* waiting; with a deadline already past all n calls fail at once.
C16_LateAttemptsFailAtOnce ==
    (pc \in {"loop", "done"} /\ serialStart # 0 /\ Due # 0) =>
        /\ \A k \in LateAttempts :
              /\ Connects[k].out = "timeout"
              /\ now = Connects[k].at
        /\ (pc = "done" /\ conn = NoConn) => Len(Connects) = Len(ips)
        /\ (pc = "done" /\ Due <= serialStart) =>
              /\ conn = NoConn
              /\ now = serialStart
              /\ err = Err("connect", <<>>, ips[1], "timeout")

\* the first attempt used up the whole Timeout and the second candidate
\* was still handed to net.Dialer
C16_Witness ==
    /\ pc = "done"
    /\ d.Timeout = TwoSeconds
    /\ d.Deadline = 0
    /\ Len(Connects) = 2
    /\ Connects[1].at = serialStart
    /\ Connects[2].at = serialStart + TwoSeconds
    /\ LateAttempts = {2}
    /\ err = Err("connect", <<>>, ips[1], "timeout")

\* C17 as stated: a parsed port passes the port check exactly when it is
\* equal, as an integer, to an entry of AllowedPorts.
C17_PortCheckExactMatch ==
    (portnum >= 0 /\ pc # "checkPort") =>
        ((pc = "done" /\ err.kind = "blocked port")
            <=> portnum \notin ElemsOf(d.AllowedPorts))

\* the number a text of decimal digits denotes
RECURSIVE DecVal(_)
DecVal(s) ==
    IF s = <<>> THEN 0
    ELSE DecVal(SubSeq(s, 1, Len(s) - 1)) * 10 + DigitVal(s[Len(s)])

AllDigits(s) == s # <<>> /\ \A i \in 1..Len(s) : s[i] \in Digits

\* C18: parsePort returns the value of a text of decimal digits in
\* 0..65535 without asking net.LookupPort, returns what net.LookupPort
\* answers for a text that is not all digits, and fails (returning no port)
\* when the value is out of range or the lookup fails; a port it returns is
\* in 0..65535.
C18_ParsePortContract ==
    pc # "parsePort" =>
        LET asked == CallsOf("LookupPort") # {}
        IN  /\ (AllDigits(port) /\ DecVal(port) <= 65535) =>
                  /\ pc = "checkPort"
                  /\ portnum = DecVal(port)
                  /\ ~asked
            /\ (AllDigits(port) /\ DecVal(port) > 65535) =>
                  /\ pc = "done"
                  /\ err.kind \in {"invalid port", "unknown port"}
            /\ ~AllDigits(port) =>
                  /\ asked
                  /\ pc = "checkPort" =>
                        [ok |-> TRUE, port |-> portnum] \in LookupPort(network, port)
                  /\ pc = "done" =>
                        /\ err.kind = "unknown port"
                        /\ \E a \in LookupPort(network, port) : ~a.ok
            /\ pc = "checkPort" => (portnum \in 0..65535 /\ err = NoErr)
            /\ pc = "done" => (portnum = -1 /\ conn = NoConn /\ err # NoErr)

\* digits followed by another character: the text went to net.LookupPort,
\* which did not know it
C18_Witness ==
    /\ pc = "done"
    /\ port = <<"5", "0", "x">>
    /\ CallsOf("LookupPort") # {}
    /\ err.kind = "unknown port"
    /\ portnum = -1

\* the ranges of the policy as a set
RangeSet == ElemsOf(d.BlockedRanges)

\* the address allowedIP was called on, and whether it let it pass
Checked == ips[1]
Refused == pc = "done" /\ err.kind = "blocked range"

RECURSIVE Reversed(_)
Reversed(q) ==
    IF q = <<>> THEN <<>> ELSE Append(Reversed(Tail(q)), Head(q))

\* C19: allowedIP refuses an address exactly when a set flag names a class
\* it belongs to (private or loopback; link-local unicast or multicast;
\* multicast or interface-local multicast; unspecified) or a blocked range
\* contains it, in whatever order the ranges are listed.
C19_AllowedIPExactly ==
    pc # "checkIPs" =>
        /\ Refused <=>
              \/ d.BlockPrivate /\ (IsPrivate(Checked) \/ IsLoopback(Checked))
              \/ d.BlockLinkLocal /\ (\/ IsLinkLocalUnicast(Checked)
                                      \/ IsLinkLocalMulticast(Checked))
              \/ d.BlockMulticast /\ (\/ IsMulticast(Checked)
                                      \/ IsInterfaceLocalMulticast(Checked))
              \/ d.BlockUnspecified /\ IsUnspecified(Checked)
              \/ \E r \in RangeSet : Contains(r, Checked)
        /\ Refused <=>
              ~allowedIP([d EXCEPT !.BlockedRanges = Reversed(@)], Checked)
        /\ ~Refused => pc = "dialSerial"

\* loopback refused by BlockPrivate alone, no range containing it
C19_Witness ==
    /\ Refused
    /\ Checked = Loop6
    /\ d.BlockPrivate
    /\ ~d.BlockLinkLocal /\ ~d.BlockMulticast /\ ~d.BlockUnspecified
    /\ Len(d.BlockedRanges) = 2
    /\ \A r \in RangeSet : ~Contains(r, Checked)

\* C20: the blocked-range error carries the address Dial was given and the
\* first IP of the resolved list that the policy blocks.
C20_ErrorNamesFirstBlockedIP ==
    (pc = "done" /\ err.kind = "blocked range") =>
        /\ BlockedAt # {}
        /\ err.addr = addr
        /\ \E k \in BlockedAt :
              /\ err.ip = ips[k]
              /\ \A j \in BlockedAt : k <= j
        /\ Len(calls) = CHOOSE k \in CallsOf("allowedIP") :
                            \A j \in CallsOf("allowedIP") : j <= k
        /\ calls[Len(calls)].ip = err.ip

\* an allowed IP first, then two blocked ones: the error names the second
C20_Witness ==
    /\ pc = "done"
    /\ d = WithBudget(DefaultDialer, 0, 0)
    /\ ips = <<Pub4, Loop4, Link6>>
    /\ err = Err("blocked range", addr, Loop4, "")

\* C21: with a deadline and n >= 1 candidates the Timeout of the net.Dialer
\* is the time left to the deadline when dialSerial began divided by n,
\* raised to two seconds, and no more than a positive configured Timeout;
\* it is the same for every candidate, and no attempt lasts longer. With
\* neither Timeout nor Deadline the net.Dialer has neither.
C21_PerAttemptTimeoutOnce ==
    (pc \in {"loop", "done"} /\ serialStart # 0) =>
        LET n      == Len(ips)
            share  == Quot(Due - serialStart, n)
            raised == IF share < TwoSeconds THEN TwoSeconds ELSE share
            capped == IF d.Timeout > 0 /\ d.Timeout < raised
                      THEN d.Timeout ELSE raised
        IN  /\ (Due # 0 /\ n >= 1) =>
                  /\ dialer.Timeout = capped
                  /\ \A k \in 1..Len(Connects) :
                        LET end == IF k < Len(Connects)
                                   THEN Connects[k + 1].at ELSE now
                        IN  /\ end - Connects[k].at <= capped
                            /\ (Connects[k].out = "timeout"
                                  /\ Connects[k].at + capped <= Due) =>
                                  end - Connects[k].at = capped
            /\ (d.Timeout = 0 /\ d.Deadline = 0) =>
                  (dialer.Timeout = 0 /\ dialer.Deadline = 0)

\* two candidates share three seconds: each gets the two-second floor, the
\* first uses it up and the second is cut short by the deadline
C21_Witness ==
    /\ pc = "done"
    /\ d.Timeout = 0
    /\ d.Deadline = serialStart + 3
    /\ Len(ips) = 2
    /\ dialer.Timeout = TwoSeconds
    /\ Len(Connects) = 2
    /\ Connects[1].out = "timeout"
    /\ Connects[2].at = serialStart + TwoSeconds
    /\ now = d.Deadline

\* the characters of an IP literal
LiteralChars ==
    Digits \cup {"a", "b", "c", "d", "e", "f", ".", ":"}

\* C22: a call resolves its host at most once; every connect is made after
\* that one resolution, to an address text whose host part is the IP
\* literal of the candidate of the resolved and validated list (and of no
\* other address) and whose port part is the decimal text of the port that
\* passed the port check; the host text of the caller is not handed over.
C22_ConnectsToValidatedLiterals ==
    /\ Cardinality(CallsOf("LookupIP")) <= 1
    /\ \A k \in 1..Len(Connects) :
          LET t == SplitHostPort(Connects[k].to)
          IN  /\ \E j \in CallsOf("LookupIP") :
                    /\ calls[j].out = "ok"
                    /\ \A c \in CallsOf("connect") : j < c
              /\ t.ok
              /\ t.host = IPString(ips[k])
              /\ \A i \in 1..Len(t.host) : t.host[i] \in LiteralChars
              /\ \A ip \in IPUniverse \cup {Loop6} :
                    IPString(ip) = t.host => ip = ips[k]
              /\ Passes(d, ips[k])
              /\ AllDigits(t.port)
              /\ DecVal(t.port) = portnum
              /\ portnum \in ElemsOf(d.AllowedPorts)
              /\ host \notin {IPString(ip) : ip \in ElemsOf(ips)} =>
                    t.host # host

\* a host name dialed by service name: the connector is handed the IPv6
\* literal in brackets and the port number
C22_Witness ==
    /\ pc = "done"
    /\ host = H_name
    /\ port = S_http
    /\ ips = <<Pub6>>
    /\ Len(Connects) = 1
    /\ Connects[1].to =
          << "[", "2", "6", "0", "6", ":", "2", "8", "0", "0", ":",
             "2", "2", "0", ":", "1", ":", ":", "1", "]", ":", "8", "0" >>
    /\ conn = Conn("tcp", Pub6, 80)

====
